---- MODULE Spec2Model ----
(***************************************************************************)
(* The starry-field application: the pointer handlers that keep the        *)
(* interaction-point map, the hand-tracking callback that keeps the        *)
(* gesture signal and the zoom distance, and the per-frame particle        *)
(* update of StarryField.                                                  *)
(*                                                                         *)
(* JavaScript numbers are modelled in fixed point: the integer n stands    *)
(* for the number n / SCALE, products and quotients are rounded to the     *)
(* nearest unit, and the value NaN is a number of its own that every       *)
(* arithmetic operation propagates and every comparison rejects.           *)
(***************************************************************************)
EXTENDS Integers, Sequences, FiniteSets, TLC

\* ------------------------------------------------------------ numbers

SCALE == 1000

NaN == 2000000000

PI == 3142

IsNaN(a) == a = NaN

Abs(a) == IF a < 0 THEN 0 - a ELSE a

Sign(a) == IF a < 0 THEN 0 - 1 ELSE IF a > 0 THEN 1 ELSE 0

\* a / b rounded to the nearest integer, b > 0
RoundDiv(a, b) == Sign(a) * ((Abs(a) + b \div 2) \div b)

Mul(a, b) == RoundDiv(a * b, SCALE)

Div(a, b) == IF b < 0 THEN RoundDiv((0 - a) * SCALE, 0 - b) ELSE RoundDiv(a * SCALE, b)

Min(a, b) == IF a < b THEN a ELSE b

Max(a, b) == IF a > b THEN a ELSE b

\* the same operations on numbers that may be NaN
FAdd(a, b) == IF IsNaN(a) \/ IsNaN(b) THEN NaN ELSE a + b

FSub(a, b) == IF IsNaN(a) \/ IsNaN(b) THEN NaN ELSE a - b

FMul(a, b) == IF IsNaN(a) \/ IsNaN(b) THEN NaN ELSE Mul(a, b)

FAbs(a) == IF IsNaN(a) THEN NaN ELSE Abs(a)

FNeg(a) == IF IsNaN(a) THEN NaN ELSE 0 - a

FLt(a, b) == ~IsNaN(a) /\ ~IsNaN(b) /\ a < b

FGt(a, b) == ~IsNaN(a) /\ ~IsNaN(b) /\ a > b

RECURSIVE SqrtSearch(_, _, _)
SqrtSearch(n, lo, hi) ==
  IF lo >= hi THEN lo
  ELSE LET mid == (lo + hi + 1) \div 2
       IN IF mid * mid <= n THEN SqrtSearch(n, mid, hi) ELSE SqrtSearch(n, lo, mid - 1)

\* the integer nearest to the square root of n >= 0
ISqrt(n) ==
  LET r == SqrtSearch(n, 0, 46340)
  IN IF r < 46340 /\ n - r * r > r THEN r + 1 ELSE r

\* Math.sqrt(a * a + b * b) and Math.hypot(a, b); operands too large for the
\* integer range are halved first
RECURSIVE Hypot(_, _)
Hypot(a, b) ==
  IF Abs(a) > 32000 \/ Abs(b) > 32000
  THEN 2 * Hypot(RoundDiv(a, 2), RoundDiv(b, 2))
  ELSE ISqrt(a * a + b * b)

FHypot(a, b) == IF IsNaN(a) \/ IsNaN(b) THEN NaN ELSE Hypot(a, b)

\* Math.sin on [0, PI], by Bhaskara's rational approximation
SinHalf(r) ==
  LET q == r * (PI - r)
  IN RoundDiv(16 * q * 50, (5 * PI * PI - 4 * q) \div 20)

\* Math.sin
Sin(x) ==
  LET r == x % (2 * PI)
  IN IF r <= PI THEN SinHalf(r) ELSE 0 - SinHalf(r - PI)

\* Math.cos
Cos(x) == Sin(x + PI \div 2)

\* Math.atan on [0, 1]
AtanUnit(z) == Mul(PI \div 4, z) + Mul(273, Mul(z, SCALE - z))

\* Math.atan2(y, x)
Atan2(y, x) ==
  IF x = 0 /\ y = 0 THEN 0
  ELSE LET ax == Abs(x)
           ay == Abs(y)
           a == IF ax >= ay THEN AtanUnit(Div(ay, ax))
                ELSE PI \div 2 - AtanUnit(Div(ax, ay))
       IN IF x >= 0
          THEN (IF y >= 0 THEN a ELSE 0 - a)
          ELSE (IF y >= 0 THEN PI - a ELSE a - PI)

\* lerp(a, b, t) = a + (b - a) * t (THREE.MathUtils.lerp is the same formula)
lerp(a, b, t) == FAdd(a, FMul(FSub(b, a), t))


\* ------------------------------------------------------------ bounds and inputs

\* particles of the field (the program's PARTICLE_COUNT is 16000)
PARTICLE_COUNT == 2

\* events and frames in one run
MaxSteps == 3

\* hand results and frames in one run without pointer events
MaxGestureSteps == 5

\* pointer events and frames in one run without hand results
MaxTouchSteps == 4

\* window.innerWidth, window.innerHeight and the viewport of the canvas
innerWidth == 800

innerHeight == 600

viewportWidth == 19882

viewportHeight == 14912

PointerIds == {1, 2}

\* where a pointer event may happen: the centre of the window and two other places
ClientPoints ==
  { [clientX |-> 400, clientY |-> 300],
    [clientX |-> 600, clientY |-> 150],
    [clientX |-> 200, clientY |-> 300] }

\* values state.clock.getElapsedTime() may return
Times == {0, 1500}

\* one particle as the initialization may draw it: a place with radius in
\* [1, 15) and depth in [-2, 2), a palette colour, a size, a phase, an angle
ParticleDraws ==
  { [x |-> 0, y |-> 2000, z |-> 0, r |-> 1000, g |-> 1000, b |-> 1000,
     size |-> 80, phase |-> 0, angle |-> 0],
    [x |-> 3000, y |-> 4000, z |-> 0 - 2000, r |-> 1000, g |-> 835, b |-> 310,
     size |-> 200, phase |-> 9500, angle |-> 3000] }

\* the landmark indices the callback reads: wrist, thumb tip, four finger tips
LandmarkIds == {0, 4, 8, 12, 16, 20}

\* one hand as the tracker may report it: the wrist at wx, the thumb tip on
\* the index tip or away from it, the finger tips far from the wrist or near it
Landmarks(wx, pinch, spread) ==
  [i \in LandmarkIds |->
     IF i = 0 THEN [x |-> wx, y |-> 800]
     ELSE IF i = 4 THEN [x |-> IF pinch THEN 520 ELSE 750, y |-> IF spread THEN 300 ELSE 650]
     ELSE [x |-> 500, y |-> IF spread THEN 300 ELSE 650]]

\* what hands.onResults may receive: no hand, or one hand (still or moved,
\* pinching or not, spread or not, or with a wrist the tracker could not place)
HandResults ==
  { [multiHandLandmarks |-> << >>],
    [multiHandLandmarks |-> << Landmarks(500, TRUE, FALSE) >>],
    [multiHandLandmarks |-> << Landmarks(500, FALSE, FALSE) >>],
    [multiHandLandmarks |-> << Landmarks(560, FALSE, TRUE) >>],
    [multiHandLandmarks |-> << Landmarks(560, TRUE, TRUE) >>],
    [multiHandLandmarks |-> << Landmarks(NaN, FALSE, FALSE) >>] }

\* JavaScript values the poem request handles: strings, undefined and null
Str(s) == [type |-> "string", value |-> s]

Undefined == [type |-> "undefined"]

Null == [type |-> "null"]

\* the value is falsy: undefined, null or the empty string
Falsy(v) == IF v.type = "string" THEN v.value = "" ELSE TRUE

FallbackPoem == Str("fallback poem")

DefaultLine == Str("default line")

\* how ai.models.generateContent may settle: with a response whose text is a
\* poem, the empty string or undefined, by rejecting, or by throwing
ServiceOutcomes ==
  { [kind |-> "resolved", text |-> Str("poem")],
    [kind |-> "resolved", text |-> Str("")],
    [kind |-> "resolved", text |-> Undefined],
    [kind |-> "rejected", text |-> Undefined],
    [kind |-> "threw", text |-> Undefined] }

NoResponse == [kind |-> "none", text |-> Undefined]

\* ------------------------------------------------------------ state

VARIABLES
  interactionPoints,     \* Map id -> {x, y, vx, vy}, in insertion order
  lastPointerPositions,  \* Map id -> {x, y}, in insertion order
  handState,             \* {x, y, vx, vy, active}
  prevHandX,
  camDistance,
  isHandTracking,
  isWaving,
  initialPositions,      \* Float32Array(PARTICLE_COUNT * 3)
  positions,             \* Float32Array(PARTICLE_COUNT * 3)
  colors,                \* Float32Array(PARTICLE_COUNT * 3)
  sizes,                 \* Float32Array(PARTICLE_COUNT)
  phases,                \* Float32Array(PARTICLE_COUNT)
  angles,                \* Float32Array(PARTICLE_COUNT)
  uTime,                 \* uniforms.uTime.value
  windVelocity,
  rotationZ,             \* meshRef.current.rotation.z
  activePoints,          \* the interaction points as the last frame read them
  handSeen,              \* handInfluence.current as the last frame read it
  removed,               \* history: the ids handlePointerUp has deleted
  steps,                 \* history: events and frames so far
  loading,               \* useState(false)
  interpretation,        \* useState<string | null>(null)
  interpretPc,           \* where the one handleInterpret call in flight stands
  response,              \* how the last generateContent call settled
  text                   \* what interpretTheStars resolved with

vars ==
  << interactionPoints, lastPointerPositions, handState, prevHandX, camDistance,
     isHandTracking, isWaving, initialPositions, positions, colors, sizes,
     phases, angles, uTime, windVelocity, rotationZ, activePoints, handSeen,
     removed, steps, loading, interpretation, interpretPc, response, text >>

pointerVars == << interactionPoints, lastPointerPositions >>

historyVars == << removed >>

handVars == << handState, prevHandX, camDistance, isHandTracking, isWaving >>

storeVars == << initialPositions, colors, sizes, phases, angles >>

frameVars == << positions, uTime, windVelocity, rotationZ, activePoints, handSeen >>

poemVars == << loading, interpretation, interpretPc, response, text >>

sceneVars ==
  << pointerVars, historyVars, handVars, storeVars, frameVars >>

\* ------------------------------------------------------------ Map

MapIndex(m, id) ==
  IF \E k \in 1..Len(m) : m[k].id = id
  THEN CHOOSE k \in 1..Len(m) : m[k].id = id
  ELSE 0

MapHas(m, id) == MapIndex(m, id) # 0

MapGet(m, id) == m[MapIndex(m, id)]

MapKeys(m) == { m[k].id : k \in 1..Len(m) }

\* Map.prototype.set: a present key keeps its place, a new key goes last
MapSet(m, id, e) ==
  IF MapHas(m, id) THEN [m EXCEPT ![MapIndex(m, id)] = e] ELSE Append(m, e)

\* a delete that removes nothing
MapDelete_Keep(m, id) == m

\* Map.prototype.delete
MapDelete(m, id) == SelectSeq(m, LAMBDA e : e.id # id)

\* ------------------------------------------------------------ pointer handlers

\* (e.clientX / window.innerWidth) * 2 - 1
NormX(e) == RoundDiv(e.clientX * SCALE, innerWidth) * 2 - SCALE

\* -(e.clientY / window.innerHeight) * 2 + 1
NormY(e) == (0 - RoundDiv(e.clientY * SCALE, innerHeight)) * 2 + SCALE

handlePointerDown(e) ==
  /\ lastPointerPositions' =
       MapSet(lastPointerPositions, e.pointerId,
              [id |-> e.pointerId, x |-> NormX(e), y |-> NormY(e)])
  /\ interactionPoints' =
       MapSet(interactionPoints, e.pointerId,
              [id |-> e.pointerId, x |-> NormX(e), y |-> NormY(e), vx |-> 0, vy |-> 0])
  /\ UNCHANGED << handVars, storeVars, frameVars, historyVars >>

\* the velocity taken as the position itself, the last position forgotten
MovedPoint_NoLast(e, last) ==
  [id |-> e.pointerId, x |-> NormX(e), y |-> NormY(e), vx |-> NormX(e), vy |-> NormY(e)]

\* the entry handlePointerMove stores for a pointer whose last position is known
MovedPoint(e, last) ==
  [id |-> e.pointerId, x |-> NormX(e), y |-> NormY(e),
   vx |-> NormX(e) - last.x, vy |-> NormY(e) - last.y]

handlePointerMove(e) ==
  /\ IF MapHas(lastPointerPositions, e.pointerId)
     THEN /\ interactionPoints' =
               MapSet(interactionPoints, e.pointerId,
                      MovedPoint(e, MapGet(lastPointerPositions, e.pointerId)))
          /\ lastPointerPositions' =
               MapSet(lastPointerPositions, e.pointerId,
                      [id |-> e.pointerId, x |-> NormX(e), y |-> NormY(e)])
     ELSE UNCHANGED pointerVars
  /\ UNCHANGED << handVars, storeVars, frameVars, historyVars >>

\* a pointerup that forgets to clear the last position
handlePointerUp_KeepLast(e) ==
  /\ interactionPoints' = MapDelete(interactionPoints, e.pointerId)
  /\ removed' = IF MapHas(interactionPoints, e.pointerId)
                THEN removed \cup {e.pointerId} ELSE removed
  /\ UNCHANGED << lastPointerPositions, handVars, storeVars, frameVars >>

handlePointerUp(e) ==
  /\ interactionPoints' = MapDelete(interactionPoints, e.pointerId)
  /\ lastPointerPositions' = MapDelete(lastPointerPositions, e.pointerId)
  /\ removed' = IF MapHas(interactionPoints, e.pointerId)
                THEN removed \cup {e.pointerId} ELSE removed
  /\ UNCHANGED << handVars, storeVars, frameVars >>

PointerEvents ==
  { [pointerId |-> id, clientX |-> c.clientX, clientY |-> c.clientY] :
      id \in PointerIds, c \in ClientPoints }

\* ------------------------------------------------------------ hand tracking

\* Math.hypot(thumbTip.x - indexTip.x, thumbTip.y - indexTip.y)
PinchDist(landmarks) ==
  FHypot(FSub(landmarks[4].x, landmarks[8].x), FSub(landmarks[4].y, landmarks[8].y))

\* the mean distance of the four finger tips from the wrist
SpreadScore(landmarks) ==
  LET d(i) == FHypot(FSub(landmarks[i].x, landmarks[0].x),
                     FSub(landmarks[i].y, landmarks[0].y))
      sum == FAdd(FAdd(FAdd(FAdd(0, d(8)), d(12)), d(16)), d(20))
  IN IF IsNaN(sum) THEN NaN ELSE RoundDiv(sum, 4)

\* the zoom step with the spread test before the pinch test
ZoomStep_SpreadFirst(prev, pinchDist, spreadScore) ==
  IF FGt(spreadScore, 400) THEN Max(prev - 400, 10000)
  ELSE IF FLt(pinchDist, 50) THEN Min(prev + 400, 35000)
  ELSE prev

\* the zoom step of one result with a hand
ZoomStep(prev, pinchDist, spreadScore) ==
  IF FLt(pinchDist, 50) THEN Min(prev + 400, 35000)
  ELSE IF FGt(spreadScore, 400) THEN Max(prev - 400, 10000)
  ELSE prev

onResults(results) ==
  /\ IF Len(results.multiHandLandmarks) > 0
     THEN LET landmarks == results.multiHandLandmarks[1]
              wrist == landmarks[0]
              currentX == FMul(FSub(wrist.x, 500), 2 * SCALE)
              currentY == 0 - Mul(wrist.y - 500, 2 * SCALE)
              vx == FSub(wrist.x, prevHandX)
          IN /\ isHandTracking' = TRUE
             /\ prevHandX' = wrist.x
             /\ isWaving' = FGt(FAbs(vx), 40)
             /\ handState' = [x |-> currentX, y |-> currentY,
                              vx |-> FMul(vx, 10 * SCALE), vy |-> 0, active |-> TRUE]
             /\ camDistance' =
                  ZoomStep(camDistance, PinchDist(landmarks), SpreadScore(landmarks))
     ELSE /\ isHandTracking' = FALSE
          /\ isWaving' = FALSE
          /\ handState' = [handState EXCEPT !.active = FALSE]
          /\ UNCHANGED << prevHandX, camDistance >>
  /\ UNCHANGED << pointerVars, storeVars, frameVars, historyVars >>

\* ------------------------------------------------------------ frame update

\* Array.from(interactionPoints.current.values()).map(...): the points in world
\* coordinates, each with its speed
Snapshot(m) ==
  [k \in 1..Len(m) |->
     [x |-> RoundDiv(Mul(m[k].x, viewportWidth), 2),
      y |-> RoundDiv(Mul(m[k].y, viewportHeight), 2),
      v |-> Hypot(m[k].vx, m[k].vy)]]

\* targetWind of one frame
TargetWind(hand) == IF hand.active THEN FMul(hand.vx, (0 - 15) * SCALE) ELSE 0

\* the smoothed wind after one frame
NextWind(wind, hand) == lerp(wind, TargetWind(hand), 50)

\* dist of particle i (from 0): the radius of its initial position
Dist(init, i) == Hypot(init[3 * i + 1], init[3 * i + 2])

\* the target of particle i before any interaction point and before the wind
Baseline(init, i, time) ==
  LET px == init[3 * i + 1]
      py == init[3 * i + 2]
      pz == init[3 * i + 3]
      dist == Hypot(px, py)
      angle == Atan2(py, px)
      vortex == Mul(Sin(Mul(time, 100) + Mul(dist, 300)), 500)
      rotationSpeed == Mul(40 + Mul(vortex, 20), Div(SCALE, Mul(dist, 100) + SCALE))
      currentAngle == angle + Mul(time, rotationSpeed)
  IN [x |-> Mul(Cos(currentAngle), dist),
      y |-> Mul(Sin(currentAngle), dist),
      z |-> pz + Mul(Sin(Mul(time, 500) + Mul(dist, 500)), 300)]

\* a point that pulls the particle in instead of pushing it away
PushAway_Pull(t, p) ==
  LET dx == t.x - p.x
      dy == t.y - p.y
      mouseDist == Hypot(dx, dy)
      influenceRadius == 4 * SCALE + p.v * 10
  IN IF mouseDist < influenceRadius
     THEN LET factor == Div(influenceRadius - mouseDist, influenceRadius)
          IN [t EXCEPT !.x = t.x - Mul(Mul(dx, factor), 300 + p.v * 2),
                       !.y = t.y - Mul(Mul(dy, factor), 300 + p.v * 2)]
     ELSE t

\* the body of activePoints.forEach for one point p
PushAway(t, p) ==
  LET dx == t.x - p.x
      dy == t.y - p.y
      mouseDist == Hypot(dx, dy)
      influenceRadius == 4 * SCALE + p.v * 10
  IN IF mouseDist < influenceRadius
     THEN LET factor == Div(influenceRadius - mouseDist, influenceRadius)
          IN [t EXCEPT !.x = t.x + Mul(Mul(dx, factor), 300 + p.v * 2),
                       !.y = t.y + Mul(Mul(dy, factor), 300 + p.v * 2)]
     ELSE t

\* activePoints.forEach: the points act one after the other, from the k-th on
RECURSIVE ApplyPoints(_, _, _)
ApplyPoints(t, pts, k) ==
  IF k > Len(pts) THEN t ELSE ApplyPoints(PushAway(t, pts[k]), pts, k + 1)

\* a wind that is cut off at dist = 20
WindOffset_Clamped(wind, dist) == FMul(wind, Max(0, SCALE - RoundDiv(dist, 20)))

\* windVelocity.current * (1.0 - dist / 20.0)
WindOffset(wind, dist) == FMul(wind, SCALE - RoundDiv(dist, 20))

\* the position of particle i that one frame writes
Target(init, i, time, pts, wind) ==
  LET t == ApplyPoints(Baseline(init, i, time), pts, 1)
  IN [t EXCEPT !.x = FAdd(t.x, WindOffset(wind, Dist(init, i)))]

\* positions that add this frame's displacement to the positions held before
FramePositions_Accumulate(old, init, time, pts, wind) ==
  LET t == [i \in 0..(PARTICLE_COUNT - 1) |-> Target(init, i, time, pts, wind)]
  IN [k \in 1..(3 * PARTICLE_COUNT) |->
        FAdd(old[k],
             FSub(IF k % 3 = 1 THEN t[(k - 1) \div 3].x
                  ELSE IF k % 3 = 2 THEN t[(k - 1) \div 3].y
                  ELSE t[(k - 1) \div 3].z,
                  init[k]))]

\* the whole position array one frame writes
FramePositions(old, init, time, pts, wind) ==
  LET t == [i \in 0..(PARTICLE_COUNT - 1) |-> Target(init, i, time, pts, wind)]
  IN [k \in 1..(3 * PARTICLE_COUNT) |->
        IF k % 3 = 1 THEN t[(k - 1) \div 3].x
        ELSE IF k % 3 = 2 THEN t[(k - 1) \div 3].y
        ELSE t[(k - 1) \div 3].z]

\* rotation.z after one frame
NextRotation(rot, wind) == FAdd(rot, FAdd(1, FMul(FAbs(wind), 5)))

\* a frame that takes the positions held before as the particles' baseline
useFrame_FromCurrent(time) ==
  LET pts == Snapshot(interactionPoints)
      wind == NextWind(windVelocity, handState)
  IN /\ uTime' = time
     /\ windVelocity' = wind
     /\ rotationZ' = NextRotation(rotationZ, wind)
     /\ activePoints' = pts
     /\ handSeen' = [active |-> handState.active, vx |-> handState.vx]
     /\ positions' = FramePositions(positions, positions, time, pts, wind)
     /\ UNCHANGED << pointerVars, handVars, storeVars, historyVars >>

useFrame(time) ==
  LET pts == Snapshot(interactionPoints)
      wind == NextWind(windVelocity, handState)
  IN /\ uTime' = time
     /\ windVelocity' = wind
     /\ rotationZ' = NextRotation(rotationZ, wind)
     /\ activePoints' = pts
     /\ handSeen' = [active |-> handState.active, vx |-> handState.vx]
     /\ positions' = FramePositions(positions, initialPositions, time, pts, wind)
     /\ UNCHANGED << pointerVars, handVars, storeVars, historyVars >>

\* ------------------------------------------------------------ poem request

\* what the promise of interpretTheStars resolves with when generateContent
\* settled as outcome: the response's text, or the fallback poem from the catch
interpretTheStars(outcome) ==
  IF outcome.kind = "resolved" THEN outcome.text ELSE FallbackPoem

\* text as it is
TextOrDefault_Raw(t) == t

\* text || default line
TextOrDefault(t) == IF Falsy(t) THEN DefaultLine ELSE t

\* the button is rendered while interpretation is falsy and enabled while
\* loading is false; the click runs handleInterpret up to its await
handleInterpret ==
  /\ Falsy(interpretation)
  /\ ~loading
  /\ loading' = TRUE
  /\ interpretPc' = "awaitService"
  /\ UNCHANGED << interpretation, response, text >>

\* generateContent settles and interpretTheStars runs to its return
generateContentSettles(outcome) ==
  /\ interpretPc = "awaitService"
  /\ response' = outcome
  /\ text' = interpretTheStars(outcome)
  /\ interpretPc' = "awaitText"
  /\ UNCHANGED << loading, interpretation >>

\* handleInterpret resumes after its await and runs to its end
handleInterpretResume ==
  /\ interpretPc = "awaitText"
  /\ interpretation' = TextOrDefault(text)
  /\ loading' = FALSE
  /\ interpretPc' = "idle"
  /\ UNCHANGED << response, text >>

\* the close button of the poem panel, rendered while interpretation is truthy
dismissInterpretation ==
  /\ ~Falsy(interpretation)
  /\ interpretation' = Null
  /\ UNCHANGED << loading, interpretPc, response, text >>

\* ------------------------------------------------------------ specification

\* the arrays the initialization fills from one draw per particle
Flat3(d, f1, f2, f3) ==
  [k \in 1..(3 * PARTICLE_COUNT) |->
     LET e == d[(k - 1) \div 3 + 1]
     IN IF k % 3 = 1 THEN e[f1] ELSE IF k % 3 = 2 THEN e[f2] ELSE e[f3]]

Flat1(d, f) == [k \in 1..PARTICLE_COUNT |-> d[k][f]]

InitWith(draws) ==
  /\ interactionPoints = << >>
  /\ lastPointerPositions = << >>
  /\ handState = [x |-> 0, y |-> 0, vx |-> 0, vy |-> 0, active |-> FALSE]
  /\ prevHandX = 500
  /\ camDistance = 18000
  /\ isHandTracking = FALSE
  /\ isWaving = FALSE
  /\ \E d \in [1..PARTICLE_COUNT -> draws] :
       /\ initialPositions = Flat3(d, "x", "y", "z")
       /\ positions = Flat3(d, "x", "y", "z")
       /\ colors = Flat3(d, "r", "g", "b")
       /\ sizes = Flat1(d, "size")
       /\ phases = Flat1(d, "phase")
       /\ angles = Flat1(d, "angle")
  /\ uTime = 0
  /\ windVelocity = 0
  /\ rotationZ = 0
  /\ activePoints = << >>
  /\ handSeen = [active |-> FALSE, vx |-> 0]
  /\ removed = {}
  /\ steps = 0
  /\ loading = FALSE
  /\ interpretation = Null
  /\ interpretPc = "idle"
  /\ response = NoResponse
  /\ text = Undefined

Init == InitWith(ParticleDraws)

PointerDown ==
  /\ \E e \in PointerEvents : handlePointerDown(e)
  /\ UNCHANGED poemVars

PointerMove ==
  /\ \E e \in PointerEvents : handlePointerMove(e)
  /\ UNCHANGED poemVars

PointerUp ==
  /\ \E e \in PointerEvents : handlePointerUp(e)
  /\ UNCHANGED poemVars

HandResult ==
  /\ \E results \in HandResults : onResults(results)
  /\ UNCHANGED poemVars

\* the clock never runs backwards
Frame ==
  /\ \E time \in Times : time >= uTime /\ useFrame(time)
  /\ UNCHANGED poemVars

Interpret == handleInterpret /\ UNCHANGED sceneVars

ServiceSettles ==
  /\ \E outcome \in ServiceOutcomes : generateContentSettles(outcome)
  /\ UNCHANGED sceneVars

InterpretResume == handleInterpretResume /\ UNCHANGED sceneVars

Dismiss == dismissInterpretation /\ UNCHANGED sceneVars

StepUpTo(n) == steps < n /\ steps' = steps + 1

Step == StepUpTo(MaxSteps)

\* the scene: pointer events, hand results and frames; the poem request,
\* which shares no state with the scene, runs under SpecPoem
Next ==
  \/ Step /\ PointerDown
  \/ Step /\ PointerMove
  \/ Step /\ PointerUp
  \/ Step /\ HandResult
  \/ Step /\ Frame

Spec == Init /\ [][Next]_vars

\* the pointer handlers alone, in any number and order
NextPointer ==
  \/ PointerDown /\ UNCHANGED steps
  \/ PointerMove /\ UNCHANGED steps
  \/ PointerUp /\ UNCHANGED steps

SpecPointer == Init /\ [][NextPointer]_vars

\* the hand-tracking callback alone, any number of times
NextZoom == HandResult /\ UNCHANGED steps

SpecZoom == Init /\ [][NextZoom]_vars

\* hand results and frames alone, in longer runs
NextGesture ==
  \/ StepUpTo(MaxGestureSteps) /\ HandResult
  \/ StepUpTo(MaxGestureSteps) /\ Frame

SpecGesture == Init /\ [][NextGesture]_vars

\* pointer events and frames only, in longer runs
NextTouch ==
  \/ StepUpTo(MaxTouchSteps) /\ PointerDown
  \/ StepUpTo(MaxTouchSteps) /\ PointerMove
  \/ StepUpTo(MaxTouchSteps) /\ PointerUp
  \/ StepUpTo(MaxTouchSteps) /\ Frame

SpecTouch == Init /\ [][NextTouch]_vars

\* poem requests, any number of them, while pointers come and go; a
\* continuation that can run does run, the service call need not settle
NextPoem ==
  \/ Interpret /\ UNCHANGED steps
  \/ ServiceSettles /\ UNCHANGED steps
  \/ InterpretResume /\ UNCHANGED steps
  \/ Dismiss /\ UNCHANGED steps
  \/ PointerDown /\ UNCHANGED steps
  \/ PointerMove /\ UNCHANGED steps
  \/ PointerUp /\ UNCHANGED steps

SpecPoem ==
  Init /\ [][NextPoem]_vars /\ WF_vars(InterpretResume /\ UNCHANGED steps)

\* the field drawn from a radial range wider than the program's [1, 15), under
\* hand results and frames: particles at radius 5, 20 and 25
WideDraws ==
  { [x |-> 3000, y |-> 4000, z |-> 0 - 2000, r |-> 1000, g |-> 835, b |-> 310,
     size |-> 200, phase |-> 9500, angle |-> 3000],
    [x |-> 0, y |-> 20000, z |-> 0, r |-> 1000, g |-> 1000, b |-> 1000,
     size |-> 80, phase |-> 0, angle |-> 0],
    [x |-> 15000, y |-> 20000, z |-> 1000, r |-> 506, g |-> 831, b |-> 980,
     size |-> 150, phase |-> 4200, angle |-> 1571] }

InitWide == InitWith(WideDraws)

NextWide ==
  \/ Step /\ HandResult
  \/ Step /\ Frame

SpecWide == InitWide /\ [][NextWide]_vars

\* ------------------------------------------------------------ C1

\* the entry of e.pointerId after event e
PointOf(m, e) == MapGet(m, e.pointerId)

\* what upsert(id, x, y) is said to store: velocity 0 for a new id, else the
\* difference to the last raw position
Upserted(e) ==
  IF MapHas(interactionPoints, e.pointerId)
  THEN [id |-> e.pointerId, x |-> NormX(e), y |-> NormY(e),
        vx |-> NormX(e) - MapGet(lastPointerPositions, e.pointerId).x,
        vy |-> NormY(e) - MapGet(lastPointerPositions, e.pointerId).y]
  ELSE [id |-> e.pointerId, x |-> NormX(e), y |-> NormY(e), vx |-> 0, vy |-> 0]

\* C1 as stated: every pointerdown and every pointermove is an upsert: a new
\* id is inserted with velocity 0, a present id gets the velocity
\* (x - lastX, y - lastY) and the position (x, y).
C1_EverySampleUpserts ==
  [][\A e \in PointerEvents :
       (handlePointerDown(e) \/ handlePointerMove(e)) =>
         /\ MapHas(interactionPoints', e.pointerId)
         /\ PointOf(interactionPoints', e) = Upserted(e)]_vars

\* C1 amended: pointerdown always stores (x, y) with velocity 0, whether the
\* id is present or not; pointermove of a present id stores the velocity
\* (x - lastX, y - lastY) and then the position (x, y) in both maps;
\* pointermove of an absent id stores nothing.
C1_DownResetsMoveUpdates ==
  [][\A e \in PointerEvents :
       /\ handlePointerDown(e) =>
            /\ MapHas(interactionPoints', e.pointerId)
            /\ PointOf(interactionPoints', e) =
                 [id |-> e.pointerId, x |-> NormX(e), y |-> NormY(e), vx |-> 0, vy |-> 0]
            /\ PointOf(lastPointerPositions', e) =
                 [id |-> e.pointerId, x |-> NormX(e), y |-> NormY(e)]
       /\ handlePointerMove(e) =>
            IF MapHas(interactionPoints, e.pointerId)
            THEN /\ PointOf(interactionPoints', e) = Upserted(e)
                 /\ PointOf(lastPointerPositions', e) =
                      [id |-> e.pointerId, x |-> NormX(e), y |-> NormY(e)]
            ELSE /\ ~MapHas(interactionPoints', e.pointerId)
                 /\ UNCHANGED pointerVars]_vars

\* a pointer has moved since it went down: its point carries a velocity
C1_Witness ==
  \E k \in 1..Len(interactionPoints) :
    /\ interactionPoints[k].vx # 0
    /\ interactionPoints[k].x = MapGet(lastPointerPositions, interactionPoints[k].id).x

\* ------------------------------------------------------------ C2

\* C2: pointerup leaves the id in neither map; a frame reads one point per id
\* that is in the map then, in the map's order, so it reads none for an id
\* that was removed; and an id that enters the map enters with velocity (0, 0),
\* whatever it held before it was removed.
C2_RemovedThenFresh ==
  [][/\ \A e \in PointerEvents :
          handlePointerUp(e) =>
            /\ ~MapHas(interactionPoints', e.pointerId)
            /\ ~MapHas(lastPointerPositions', e.pointerId)
     /\ \A id \in PointerIds :
          (~MapHas(interactionPoints, id) /\ MapHas(interactionPoints', id)) =>
            /\ MapGet(interactionPoints', id).vx = 0
            /\ MapGet(interactionPoints', id).vy = 0
     /\ \A time \in Times :
          useFrame(time) =>
            /\ Len(activePoints') = Cardinality(MapKeys(interactionPoints))
            /\ \A k \in 1..Len(activePoints') :
                 /\ activePoints'[k].x = RoundDiv(Mul(interactionPoints[k].x, viewportWidth), 2)
                 /\ activePoints'[k].y = RoundDiv(Mul(interactionPoints[k].y, viewportHeight), 2)]_vars

\* an id that was removed is in the map again, with velocity 0, and a frame
\* has read it
C2_Witness ==
  \E id \in removed :
    /\ MapHas(interactionPoints, id)
    /\ MapGet(interactionPoints, id).vx = 0
    /\ MapGet(interactionPoints, id).vy = 0
    /\ Len(activePoints) = 1

\* ------------------------------------------------------------ C9

\* C9: the two maps hold the same ids, each with the same position in both,
\* and a pointermove of an id in neither map changes neither map.
C9_MapsAgree ==
  /\ [](/\ MapKeys(interactionPoints) = MapKeys(lastPointerPositions)
        /\ Len(interactionPoints) = Cardinality(MapKeys(interactionPoints))
        /\ Len(lastPointerPositions) = Cardinality(MapKeys(lastPointerPositions))
        /\ \A id \in MapKeys(interactionPoints) :
             /\ MapGet(interactionPoints, id).x = MapGet(lastPointerPositions, id).x
             /\ MapGet(interactionPoints, id).y = MapGet(lastPointerPositions, id).y)
  /\ [][\A e \in PointerEvents :
          (/\ handlePointerMove(e)
           /\ ~MapHas(interactionPoints, e.pointerId)
           /\ ~MapHas(lastPointerPositions, e.pointerId)) => UNCHANGED pointerVars]_vars

\* both pointers are down, one went down again after it was released, and the
\* other has moved
C9_Witness ==
  /\ MapKeys(interactionPoints) = PointerIds
  /\ removed # {}
  /\ \E k \in 1..Len(interactionPoints) : interactionPoints[k].vy # 0

\* ------------------------------------------------------------ C10

IsPinch(results) ==
  /\ Len(results.multiHandLandmarks) > 0
  /\ FLt(PinchDist(results.multiHandLandmarks[1]), 50)

IsSpread(results) ==
  /\ Len(results.multiHandLandmarks) > 0
  /\ FGt(SpreadScore(results.multiHandLandmarks[1]), 400)

\* C10: camDistance stays in [10, 35]; a pinch raises it by at most 0.4 and
\* never lowers it, a spread without pinch lowers it by at most 0.4 and never
\* raises it, pinch and spread together count as pinch, and a result with no
\* hand leaves it as it is.
C10_ZoomBounded ==
  /\ [](camDistance >= 10000 /\ camDistance <= 35000)
  /\ [][\A results \in HandResults :
          onResults(results) =>
            /\ IsPinch(results) =>
                 camDistance' >= camDistance /\ camDistance' <= camDistance + 400
            /\ (IsSpread(results) /\ ~IsPinch(results)) =>
                 camDistance' <= camDistance /\ camDistance' >= camDistance - 400
            /\ Len(results.multiHandLandmarks) = 0 => camDistance' = camDistance]_vars

\* pinches have carried the camera to the far limit
C10_Witness == camDistance = 35000

\* ------------------------------------------------------------ C3

\* the gesture signal a frame would read now
HandNow == [active |-> handState.active, vx |-> handState.vx]

\* a frame at `time` that follows an earlier frame and reads the same time,
\* the same interaction points and the same gesture signal as that frame
SameInputsFrame(time) ==
  /\ useFrame(time)
  /\ rotationZ # 0
  /\ time = uTime
  /\ Snapshot(interactionPoints) = activePoints
  /\ HandNow = handSeen

\* C3 as stated: a second frame update with the same time, initial positions,
\* interaction points and gesture signal writes the positions the first wrote.
C3_SameInputsSamePositions ==
  [][\A time \in Times : SameInputsFrame(time) => positions' = positions]_vars

\* C3 amended: a second frame update with the same time, initial positions,
\* interaction points and gesture signal writes the positions the first wrote
\* when it also applies the same windVelocity; the update moves windVelocity
\* toward its target before it uses it, so away from the target the second
\* call applies another wind.
C3_SameWindSamePositions ==
  [][\A time \in Times :
       (SameInputsFrame(time) /\ windVelocity' = windVelocity) =>
         positions' = positions]_vars

\* three events, two of them frames at time 0 with no wind, the last of which
\* read one interaction point and moved the particles
C3_Witness ==
  /\ steps = 3
  /\ rotationZ = 2
  /\ uTime = 0
  /\ windVelocity = 0
  /\ Len(activePoints) = 1
  /\ positions # initialPositions

\* ------------------------------------------------------------ C4

\* C4: the initial positions, colours, sizes, phases and angles never change
\* and every array keeps its length; a frame leaves the pointer maps, the
\* gesture state and the zoom alone, and the positions it writes are those it
\* would write over any earlier positions.
C4_StoreStable ==
  /\ [](/\ Len(initialPositions) = 3 * PARTICLE_COUNT
        /\ Len(positions) = 3 * PARTICLE_COUNT
        /\ Len(colors) = 3 * PARTICLE_COUNT
        /\ Len(sizes) = PARTICLE_COUNT
        /\ Len(phases) = PARTICLE_COUNT
        /\ Len(angles) = PARTICLE_COUNT)
  /\ [][storeVars' = storeVars]_vars
  /\ [][\A time \in Times :
          useFrame(time) =>
            /\ UNCHANGED << pointerVars, handVars, storeVars >>
            /\ positions' =
                 FramePositions(initialPositions, initialPositions, time,
                                Snapshot(interactionPoints), windVelocity')]_vars

\* a hand came into view and two frames have run (each turned the field by
\* 0.001, there being no wind), and the positions are no longer the initial ones
C4_Witness ==
  /\ rotationZ = 2
  /\ windVelocity = 0
  /\ handState.active
  /\ positions # initialPositions

\* ------------------------------------------------------------ C5

\* one frame of decay from w to w2: still a number, no larger, of the same
\* sign, and smaller unless w is within rounding of 0
Decays(w, w2) ==
  /\ ~IsNaN(w2)
  /\ ~IsNaN(w)
  /\ Abs(w2) <= Abs(w)
  /\ Sign(w2) = Sign(w) \/ w2 = 0
  /\ Abs(w) >= 10 => Abs(w2) < Abs(w)

\* C5: in every frame that reads active = false, whatever windVelocity is,
\* windVelocity becomes windVelocity + (0 - windVelocity) * 0.05, no larger in
\* magnitude, of the same sign, and nearer to 0.
C5_WindDecays ==
  [][\A time \in Times :
       (useFrame(time) /\ ~handState.active) =>
         /\ windVelocity' = lerp(windVelocity, 0, 50)
         /\ Decays(windVelocity, windVelocity')]_vars

\* the same from every windVelocity that is a number
WindDecaysFromNumbers ==
  [][\A time \in Times :
       (useFrame(time) /\ ~handState.active /\ ~IsNaN(windVelocity)) =>
         /\ windVelocity' = lerp(windVelocity, 0, 50)
         /\ Decays(windVelocity, windVelocity')]_vars

\* ------------------------------------------------------------ C6

\* C6: a frame that reads a gesture sample whose velocity is NaN leaves
\* windVelocity and the positions as a frame that reads active = false would,
\* and windVelocity is a number after every frame.
C6_NaNSampleIsInactive ==
  [][\A time \in Times :
       useFrame(time) =>
         /\ ~IsNaN(windVelocity')
         /\ (handState.active /\ IsNaN(handState.vx)) =>
              /\ windVelocity' = lerp(windVelocity, 0, 50)
              /\ positions' =
                   FramePositions(positions, initialPositions, time,
                                  Snapshot(interactionPoints),
                                  lerp(windVelocity, 0, 50))]_vars

\* ------------------------------------------------------------ C7

\* the square of the distance of (a, b) from the origin
Sq(a, b) == a * a + b * b

\* C7: in a frame that reads exactly one interaction point, at the origin with
\* speed 0, and applies no wind, a particle with dist < 4 is written further
\* from the origin than its baseline, along its baseline direction and at its
\* baseline depth, and a particle with dist > 4 is written at its baseline.
C7_RepelledInsideRadius ==
  [][\A time \in Times :
       (/\ useFrame(time)
        /\ Snapshot(interactionPoints) = << [x |-> 0, y |-> 0, v |-> 0] >>
        /\ windVelocity' = 0) =>
         \A i \in 0..(PARTICLE_COUNT - 1) :
           LET b == Baseline(initialPositions, i, time)
               px == positions'[3 * i + 1]
               py == positions'[3 * i + 2]
               pz == positions'[3 * i + 3]
           IN /\ Dist(initialPositions, i) < 4 * SCALE =>
                   /\ Sq(px, py) > Sq(b.x, b.y)
                   /\ Sign(px - b.x) = Sign(b.x)
                   /\ Sign(py - b.y) = Sign(b.y)
                   /\ pz = b.z
              /\ Dist(initialPositions, i) > 4 * SCALE =>
                   px = b.x /\ py = b.y /\ pz = b.z]_vars

\* a frame has read one still point at the origin, with no wind, over a field
\* with a particle inside the radius and a particle outside it
C7_Witness ==
  /\ rotationZ # 0
  /\ activePoints = << [x |-> 0, y |-> 0, v |-> 0] >>
  /\ windVelocity = 0
  /\ \E i \in 0..(PARTICLE_COUNT - 1) : Dist(initialPositions, i) < 4 * SCALE
  /\ \E i \in 0..(PARTICLE_COUNT - 1) : Dist(initialPositions, i) > 4 * SCALE

\* ------------------------------------------------------------ C8

\* what a frame at `time` adds to the x of particle i for the wind
WindAdded(i, time) ==
  FSub(positions'[3 * i + 1],
       ApplyPoints(Baseline(initialPositions, i, time),
                   Snapshot(interactionPoints), 1).x)

\* 1.0 - dist / 20.0 for particle i
WindFactor(i) == SCALE - RoundDiv(Dist(initialPositions, i), 20)

Shown(outcome) ==
  IF outcome.kind # "resolved" THEN FallbackPoem
  ELSE IF Falsy(outcome.text) THEN DefaultLine
  ELSE outcome.text

\* C11: a click on the button sets loading to true, and loading stays true
\* while the request is in flight; once the service call has settled, in any
\* of the ways it can (text, empty or undefined text, rejection, throw), the
\* request eventually ends with loading false and interpretation a non-empty
\* string: the service text, the fallback poem or the default line.
C11_LoadingEnds ==
  /\ [][(interpretPc = "idle" /\ interpretPc' # "idle") => (~loading /\ loading')]_vars
  /\ [](interpretPc # "idle" => loading)
  /\ [][(interpretPc = "awaitText" /\ interpretPc' = "idle") =>
          /\ ~loading'
          /\ interpretation' = Shown(response)
          /\ ~Falsy(interpretation')]_vars
  /\ (interpretPc = "awaitText") ~> (interpretPc = "idle" /\ ~loading /\ ~Falsy(interpretation))

\* a request whose service call rejected has ended: loading is false again and
\* the panel shows the fallback poem
C11_Witness ==
  /\ interpretPc = "idle"
  /\ ~loading
  /\ response.kind = "rejected"
  /\ interpretation = FallbackPoem

====
